---- MODULE Spec2Model ----
(***************************************************************************)
(* Model of the pipeline orchestration of the SDLC dashboard               *)
(* (frontend/src/pages/Dashboard.tsx): the seven-agent chain driven by     *)
(* startUIUXAgent, advanceToNextStep and handleApplyFix, the timers that    *)
(* re-enter them and the agent calls in flight.                             *)
(*                                                                          *)
(* A handler runs atomically up to its `await`; the code after the `await` *)
(* runs atomically when the call returns.  Each handler is a closure of     *)
(* the render that created it: what it reads from component state           *)
(* (messages, githubRepoUrl, currentStepIndex, uploadedFile, prdText) are   *)
(* the values of that render, which a timer callback keeps.  State writes   *)
(* use functional updaters or constants and act on the live state.          *)
(*                                                                          *)
(* The Dashboard runs inside App: AuthProvider                              *)
(* (frontend/src/hooks/useAuth.tsx) with the session check of its mount     *)
(* effect, login, register and logout and the AuthService requests in       *)
(* flight; the five routes with AuthGuard and PublicGuard; the links of    *)
(* the Header and the button of Home that lead to the Dashboard and away    *)
(* from it.  The Dashboard is mounted when its route is shown and AuthGuard *)
(* renders it, and unmounted when either ends; window.location.reload()     *)
(* loads App anew.                                                          *)
(***************************************************************************)
EXTENDS Integers, Sequences, FiniteSets, Bags, TLC

(* ------------------------------ bounds --------------------------------- *)
\* user actions (clicks, inputs and form submissions) explored in one session
MaxUserActions == 4

(* --------------------------- program constants ------------------------- *)
AGENTS == <<"ui_ux", "architecture", "impact", "coding", "testing", "scanning", "review">>

AgentsLength == Len(AGENTS)

\* AGENTS[i].id for the 0-based index i of the code
AgentId(i) == AGENTS[i + 1]

isAutoExecution == TRUE

\* a null / undefined / empty string: all falsy in the code's tests
NullText == ""

\* the default query of startUIUXAgent
DefaultContent == "Process this PRD for SDLC automation"

\* stepIndex argument left out by the caller
Undefined == -2

\* the click event React passes to an onClick handler; as a number it is NaN
EventObject == -1

\* texts the user may type or bring from the Home page: blank and non-blank
UserTexts == {" ", "prd"}

\* location.state.prdText: absent, blank or a text
LocationTexts == {NullText} \cup UserTexts

\* values of the repository URL input
RepoInputs == {"", "repoU"}

(* ------------------------------ helpers -------------------------------- *)
\* String.prototype.trim on the texts of the model
Trim(s) == IF s = " " THEN "" ELSE s

\* JavaScript truthiness of a string
Truthy(s) == s # ""

\* a || b on strings
OrElse(a, b) == IF Truthy(a) THEN a ELSE b

\* a < b where a may be an object (ToNumber gives NaN, so the test is false)
JsLess(a, b) == a # EventObject /\ a # Undefined /\ a < b

\* (nextIndex + 1).toString()
StepString(n) ==
    IF n \in 1..7 THEN <<"1", "2", "3", "4", "5", "6", "7">>[n] ELSE "[object Object]1"

\* responses of the orchestrate endpoint explored by the model
SuccessResponses ==
    { [status |-> "success", output |-> "A", file_id |-> "", github_repo |-> "", can_fix |-> FALSE],
      [status |-> "success", output |-> "", file_id |-> "ref123", github_repo |-> "repoR", can_fix |-> TRUE] }

ErrorResponse == [status |-> "error", output |-> "", file_id |-> "", github_repo |-> "", can_fix |-> FALSE]

\* the request promise rejects (network error, timeout, non-2xx)
Thrown == [status |-> "thrown", output |-> "", file_id |-> "", github_repo |-> "", can_fix |-> FALSE]

Outcomes == SuccessResponses \cup {ErrorResponse, Thrown}

\* an entry of `messages`
Msg(role, content, agentOutput, githubUrl, agentType, fileId, canFix) ==
    [role |-> role, content |-> content, agentOutput |-> agentOutput, githubUrl |-> githubUrl,
     agentType |-> agentType, fileId |-> fileId, canFix |-> canFix]

UserMsg(content) == Msg("user", content, "", "", "", "", FALSE)

NoteMsg(content) == Msg("assistant", content, "", "", "", "", FALSE)

\* the form posted by AgentService.orchestrateSDLC
OrchestrateSDLC(query, step, file, githubUrl, applyFix) ==
    [query |-> query, step |-> step, file |-> file,
     github_url |-> IF Truthy(githubUrl) THEN githubUrl ELSE "",
     apply_fix |-> applyFix]

NoRequest == [query |-> "", step |-> "", file |-> FALSE, github_url |-> "", apply_fix |-> FALSE]

\* what a handler closure reads of its render
Closure(msgs, repoUrl, curIdx, upl, prd) ==
    [msgs |-> msgs, repoUrl |-> repoUrl, curIdx |-> curIdx, uploadedFile |-> upl, prdText |-> prd]

NoClosure == Closure(<<>>, "", 0, FALSE, NullText)

\* the indices of the messages satisfying a test being I, the index of the one
\* [...messages].reverse().find(test) returns; 0 if it returns undefined
LastOf(I) == IF I = {} THEN 0 ELSE CHOOSE i \in I : \A j \in I : j <= i

(* ------------------------------- state --------------------------------- *)
VARIABLES
    currentStepIndex,   \* useState(0)
    agentStatuses,      \* agent id -> 'idle' | 'running' | 'success' | 'error'
    isLoading,
    githubRepoUrl,
    messages,           \* the transcript
    figmaPrompt,        \* null (NullText) or the UI/UX output
    uploadedFile,       \* a PRD file is held
    prdText,            \* null (NullText) or the PRD text
    locationPrd,        \* location.state.prdText of the page, kept over a reload
    timers,             \* bag of pending setTimeout callbacks
    calls,              \* bag of agent calls in flight (awaited requests)
    run,                \* history: number of the page load the state belongs to
    nActs,              \* history: user actions so far in the session
    lastOp,             \* history: the operation that produced this state
    user,               \* AuthProvider: useState<User | null>(null)
    token,              \* localStorage item 'token'
    loading,            \* AuthProvider: useState(true)
    authCalls,          \* bag of AuthService requests in flight, each with its continuation
    path,               \* the route shown (location.pathname)
    oldTimers,          \* bag of pending setTimeout callbacks of unmounted Dashboards
    oldCalls            \* bag of agent calls in flight of unmounted Dashboards

\* the state of the Dashboard component
compVars == <<currentStepIndex, agentStatuses, isLoading, githubRepoUrl, messages,
              figmaPrompt, uploadedFile, prdText>>

progVars == <<currentStepIndex, agentStatuses, isLoading, githubRepoUrl, messages,
              figmaPrompt, uploadedFile, prdText, locationPrd, timers, calls>>

vars == <<currentStepIndex, agentStatuses, isLoading, githubRepoUrl, messages,
          figmaPrompt, uploadedFile, prdText, locationPrd, timers, calls,
          run, nActs, lastOp, user, token, loading, authCalls, path, oldTimers, oldCalls>>

\* what a step of the mounted Dashboard leaves alone: the session, the route
\* and the callbacks of unmounted Dashboards
shellVars == <<user, token, loading, authCalls, path, oldTimers, oldCalls>>

\* record of the operation just executed
\* (pending: the callbacks and calls that were pending when a reset ran)
Op(op, nextIndex, invoked, req, outcome) ==
    [op |-> op, nextIndex |-> nextIndex, invoked |-> invoked, req |-> req, outcome |-> outcome,
     pending |-> 0]

\* the closure of the handlers created by the current render
CurrentClosure == Closure(messages, githubRepoUrl, currentStepIndex, uploadedFile, prdText)

StartTimer(directText, cl, r) ==
    [kind |-> "start", stepIndex |-> 0, forcedRepoUrl |-> "", directText |-> directText,
     cl |-> cl, run |-> r]

AdvanceTimer(stepIndex, forcedRepoUrl, cl, r) ==
    [kind |-> "advance", stepIndex |-> stepIndex, forcedRepoUrl |-> forcedRepoUrl,
     directText |-> NullText, cl |-> cl, run |-> r]

Call(op, req, nextIndex, cl, r) ==
    [op |-> op, req |-> req, nextIndex |-> nextIndex, cl |-> cl, run |-> r]

Add(bag, e) == bag (+) SetToBag({e})

Remove(bag, e) == bag (-) SetToBag({e})

InitialStatuses == [a \in {AGENTS[i] : i \in 1..AgentsLength} |->
                        IF a = "ui_ux" THEN "running" ELSE "idle"]

\* the component after its first render and its mount effect, on a page
\* whose location state carries loc, in page load r
Mounted(loc, r) ==
    [currentStepIndex |-> 0,
     agentStatuses |-> InitialStatuses,
     isLoading |-> FALSE,
     githubRepoUrl |-> "",
     figmaPrompt |-> NullText,
     uploadedFile |-> FALSE,
     prdText |-> IF Truthy(loc) THEN loc ELSE NullText,
     messages |-> IF Truthy(loc) THEN <<UserMsg("search")>> ELSE <<>>,
     timers |-> IF Truthy(loc) THEN SetToBag({StartTimer(loc, NoClosure, r)}) ELSE EmptyBag]

(* --------------------------- stage 0: start ---------------------------- *)
\* the block holding PRDUploader or the Generate card is rendered
PrdSectionShown == currentStepIndex = 0 /\ ~Truthy(figmaPrompt)

PrdUploaderShown == PrdSectionShown /\ ~uploadedFile /\ ~Truthy(prdText)

GenerateCardShown == PrdSectionShown /\ (uploadedFile \/ Truthy(prdText))

\* the test made on the texts as typed, blank ones included
NoContent_Untrimmed(directText, cl) ==
    ~cl.uploadedFile /\ ~Truthy(OrElse(directText, cl.prdText))

\* !uploadedFile && !textToUse: neither a file nor a non-blank text
NoContent(directText, cl) ==
    ~cl.uploadedFile /\ ~Truthy(OrElse(Trim(directText), Trim(cl.prdText)))

\* startUIUXAgent(directText) run by a handler of closure cl, up to its await
StartUIUXAgent(directText, cl, opName) ==
    LET textToUse == OrElse(Trim(directText), Trim(cl.prdText))
        contentToProcess == OrElse(textToUse, DefaultContent)
        req == OrchestrateSDLC(contentToProcess, "1", cl.uploadedFile, "", FALSE)
    IN  /\ IF NoContent(directText, cl)
           THEN /\ messages' = Append(messages, NoteMsg("warning"))
                /\ lastOp' = Op(opName, 0, FALSE, NoRequest, "")
                /\ UNCHANGED <<isLoading, calls>>
           ELSE /\ isLoading' = TRUE
                /\ calls' = Add(calls, Call("start", req, 0, cl, run))
                /\ lastOp' = Op(opName, 0, TRUE, req, "")
                /\ UNCHANGED messages
        /\ UNCHANGED <<currentStepIndex, agentStatuses, githubRepoUrl, figmaPrompt,
                       uploadedFile, prdText, locationPrd, run>>

\* PRDUploader "Enter Text" submit, then Dashboard.handleTextSubmit
HandleTextSubmit(text) ==
    /\ PrdUploaderShown
    /\ Truthy(Trim(text)) /\ ~isLoading
    /\ prdText' = text
    /\ uploadedFile' = FALSE
    /\ messages' = Append(messages, UserMsg("text"))
    /\ timers' = Add(timers, StartTimer(text, CurrentClosure, run))
    /\ lastOp' = Op("textSubmit", 0, FALSE, NoRequest, "")
    /\ UNCHANGED <<currentStepIndex, agentStatuses, isLoading, githubRepoUrl, figmaPrompt,
                   locationPrd, calls, run>>

\* PRDUploader file upload, then Dashboard.handlePRDSubmit
HandlePRDSubmit ==
    /\ PrdUploaderShown
    /\ ~isLoading
    /\ uploadedFile' = TRUE
    /\ prdText' = NullText
    /\ messages' = Append(messages, UserMsg("file"))
    /\ lastOp' = Op("upload", 0, FALSE, NoRequest, "")
    /\ UNCHANGED <<currentStepIndex, agentStatuses, isLoading, githubRepoUrl, figmaPrompt,
                   locationPrd, timers, calls, run>>

\* the "Change Document" button
ChangeDocument ==
    /\ GenerateCardShown
    /\ uploadedFile' = FALSE
    /\ prdText' = NullText
    /\ lastOp' = Op("changeDocument", 0, FALSE, NoRequest, "")
    /\ UNCHANGED <<currentStepIndex, agentStatuses, isLoading, githubRepoUrl, figmaPrompt,
                   messages, locationPrd, timers, calls, run>>

\* the "Generate Functional UI System" button: startUIUXAgent()
GenerateClick ==
    /\ GenerateCardShown
    /\ ~isLoading
    /\ StartUIUXAgent(NullText, CurrentClosure, "generate")
    /\ UNCHANGED timers

\* an auto-start timer fires: startUIUXAgent(text)
StartTimerFire(t) ==
    /\ t \in BagToSet(timers)
    /\ t.kind = "start"
    /\ timers' = Remove(timers, t)
    /\ StartUIUXAgent(t.directText, t.cl, "autoStart")

\* startUIUXAgent as it would be if its success branch went back to the first
\* stage the way handleStartProcess does
StartReturn_ResetsIndex(c, out) ==
    /\ c \in BagToSet(calls)
    /\ c.op = "start"
    /\ calls' = Remove(calls, c)
    /\ IF out.status = "success"
       THEN /\ agentStatuses' = [agentStatuses EXCEPT !["ui_ux"] = "success"]
            /\ figmaPrompt' = IF Truthy(out.output) THEN out.output ELSE figmaPrompt
            /\ messages' = Append(messages,
                   Msg("assistant", "ok", out.output, out.github_repo, "ui_ux", "", FALSE))
            /\ currentStepIndex' = 0
       ELSE /\ agentStatuses' = [agentStatuses EXCEPT !["ui_ux"] = "error"]
            /\ messages' = Append(messages,
                   NoteMsg(IF out.status = "error" THEN "failed" ELSE "technical-error"))
            /\ UNCHANGED <<figmaPrompt, currentStepIndex>>
    /\ isLoading' = FALSE
    /\ lastOp' = Op("startReturn", 0, FALSE, c.req, out.status)
    /\ UNCHANGED <<githubRepoUrl, uploadedFile, prdText, locationPrd, timers, run>>

\* the stage-0 call returns out: the rest of startUIUXAgent
StartReturn(c, out) ==
    /\ c \in BagToSet(calls)
    /\ c.op = "start"
    /\ calls' = Remove(calls, c)
    /\ IF out.status = "success"
       THEN /\ agentStatuses' = [agentStatuses EXCEPT !["ui_ux"] = "success"]
            /\ figmaPrompt' = IF Truthy(out.output) THEN out.output ELSE figmaPrompt
            /\ messages' = Append(messages,
                   Msg("assistant", "ok", out.output, out.github_repo, "ui_ux", "", FALSE))
       ELSE /\ agentStatuses' = [agentStatuses EXCEPT !["ui_ux"] = "error"]
            /\ messages' = Append(messages,
                   NoteMsg(IF out.status = "error" THEN "failed" ELSE "technical-error"))
            /\ UNCHANGED figmaPrompt
    /\ isLoading' = FALSE
    /\ lastOp' = Op("startReturn", 0, FALSE, c.req, out.status)
    /\ UNCHANGED <<currentStepIndex, githubRepoUrl, uploadedFile, prdText, locationPrd,
                   timers, run>>

(* ---------------------- stages 1..6: advance --------------------------- *)
HasOutputOrFile(m) == Truthy(m.agentOutput) \/ Truthy(m.fileId)

\* [...messages].reverse().find(m => m.agentOutput || m.fileId), as an index
FindPrevMessage(msgs) == LastOf({i \in 1..Len(msgs) : HasOutputOrFile(msgs[i])})

\* the query advanceToNextStep builds from the messages it reads
BuildQuery(msgs, nextIndex) ==
    LET p == FindPrevMessage(msgs)
        query == IF p # 0 THEN msgs[p].agentOutput ELSE ""
    IN  IF nextIndex + 1 >= 6 /\ p # 0 /\ Truthy(msgs[p].fileId)
        THEN msgs[p].fileId
        ELSE query

NextIndexInRange_Always(nextIndex) == TRUE

\* nextIndex < AGENTS.length
NextIndexInRange(nextIndex) == JsLess(nextIndex, AgentsLength)

\* the fallback to the URL the user entered left out
RepoToUse_ForcedOnly(forcedRepoUrl, cl) == forcedRepoUrl

\* const repoToUse = forcedRepoUrl || githubRepoUrl
RepoToUse(forcedRepoUrl, cl) == OrElse(forcedRepoUrl, cl.repoUrl)

\* advanceToNextStep(stepIndex, forcedRepoUrl) run by a handler of closure cl,
\* up to its await
AdvanceToNextStep(stepIndex, forcedRepoUrl, cl, opName) ==
    LET nextIndex == IF stepIndex # Undefined THEN stepIndex ELSE cl.curIdx + 1
        repoToUse == RepoToUse(forcedRepoUrl, cl)
        req == OrchestrateSDLC(BuildQuery(cl.msgs, nextIndex), StepString(nextIndex + 1),
                               FALSE, repoToUse, FALSE)
    IN  /\ IF NextIndexInRange(nextIndex)
           THEN /\ currentStepIndex' = nextIndex
                   \* AGENTS[nextIndex] exists for every index the test admits
                /\ agentStatuses' = IF nextIndex \in 0..(AgentsLength - 1)
                                    THEN [agentStatuses EXCEPT ![AgentId(nextIndex)] = "running"]
                                    ELSE agentStatuses
                /\ isLoading' = TRUE
                /\ calls' = Add(calls, Call("advance", req, nextIndex, cl, run))
                /\ lastOp' = Op(opName, nextIndex, TRUE, req, "")
           ELSE /\ UNCHANGED <<currentStepIndex, agentStatuses, isLoading, calls>>
                /\ lastOp' = Op(opName, nextIndex, FALSE, NoRequest, "")
        /\ UNCHANGED <<githubRepoUrl, messages, figmaPrompt, uploadedFile, prdText,
                       locationPrd, run>>

\* the stage-2 form (repository URL and the jump button) is rendered
JumpFormShown == currentStepIndex = 0 /\ Truthy(figmaPrompt)

\* typing into the GitHub Repository URL input
SetGithubRepoUrl(v) ==
    /\ JumpFormShown
    /\ v # githubRepoUrl
    /\ githubRepoUrl' = v
    /\ lastOp' = Op("setRepoUrl", 0, FALSE, NoRequest, "")
    /\ UNCHANGED <<currentStepIndex, agentStatuses, isLoading, messages, figmaPrompt,
                   uploadedFile, prdText, locationPrd, timers, calls, run>>

\* disabled={!githubRepoUrl || isLoading}
JumpDisabled == ~Truthy(githubRepoUrl) \/ isLoading

\* the user presses "Start Architecture Analysis": advanceToNextStep(1);
\* a disabled button delivers no click
JumpClick ==
    /\ JumpFormShown
    /\ IF JumpDisabled
       THEN /\ lastOp' = Op("jumpRejected", 1, FALSE, NoRequest, "")
            /\ UNCHANGED <<currentStepIndex, agentStatuses, isLoading, githubRepoUrl, messages,
                           figmaPrompt, uploadedFile, prdText, locationPrd, calls, run>>
       ELSE AdvanceToNextStep(1, NullText, CurrentClosure, "jump")
    /\ UNCHANGED timers

\* showContinue of the card of AGENTS[index]
ShowContinue(index) ==
    /\ currentStepIndex = index
    /\ agentStatuses[AgentId(index)] = "success"
    /\ index < AgentsLength - 1
    /\ (index # 0 \/ githubRepoUrl # "")

\* "Continue Procedure": onClick={onContinue} calls advanceToNextStep(event)
ContinueClick(index) ==
    /\ ShowContinue(index)
    /\ AdvanceToNextStep(EventObject, NullText, CurrentClosure, "continue")
    /\ UNCHANGED timers

\* an auto-advance timer fires: advanceToNextStep(nextIndex + 1, github_repo)
\* of the closure that scheduled it
AdvanceTimerFire(t) ==
    /\ t \in BagToSet(timers)
    /\ t.kind = "advance"
    /\ timers' = Remove(timers, t)
    /\ AdvanceToNextStep(t.stepIndex, t.forcedRepoUrl, t.cl, "autoAdvance")

AutoAdvanceTimers_NoStatusCheck(c, out) ==
    IF isAutoExecution /\ c.nextIndex < AgentsLength - 1
    THEN SetToBag({AdvanceTimer(c.nextIndex + 1, out.github_repo, c.cl, c.run)})
    ELSE EmptyBag

AutoAdvanceTimers_StopsEarly(c, out) ==
    IF out.status = "success" /\ isAutoExecution /\ c.nextIndex < AgentsLength - 2
    THEN SetToBag({AdvanceTimer(c.nextIndex + 1, out.github_repo, c.cl, c.run)})
    ELSE EmptyBag

\* the auto-advance scheduled without its target, leaving the index to the
\* default currentStepIndex + 1 of the closure that runs it
AutoAdvanceTimers_NoTarget(c, out) ==
    IF out.status = "success" /\ isAutoExecution /\ c.nextIndex < AgentsLength - 1
    THEN SetToBag({AdvanceTimer(Undefined, out.github_repo, c.cl, c.run)})
    ELSE EmptyBag

\* the timers the returning call c schedules: on success, when more stages remain
AutoAdvanceTimers(c, out) ==
    IF out.status = "success" /\ isAutoExecution /\ c.nextIndex < AgentsLength - 1
    THEN SetToBag({AdvanceTimer(c.nextIndex + 1, out.github_repo, c.cl, c.run)})
    ELSE EmptyBag

\* the call of stage c.nextIndex returns out: the rest of advanceToNextStep
AdvanceReturn(c, out) ==
    /\ c \in BagToSet(calls)
    /\ c.op = "advance"
    /\ calls' = Remove(calls, c)
    /\ IF out.status = "success"
       THEN /\ agentStatuses' = [agentStatuses EXCEPT ![AgentId(c.nextIndex)] = "success"]
            /\ messages' = Append(messages,
                   Msg("assistant", "ok", out.output, out.github_repo, AgentId(c.nextIndex),
                       OrElse(out.file_id, "latest"), out.can_fix))
       ELSE /\ agentStatuses' = [agentStatuses EXCEPT ![AgentId(c.nextIndex)] = "error"]
            /\ messages' = Append(messages,
                   NoteMsg(IF out.status = "error" THEN "failed" ELSE "failed-to-execute"))
    /\ timers' = timers (+) AutoAdvanceTimers(c, out)
    /\ isLoading' = FALSE
    /\ lastOp' = Op("advanceReturn", c.nextIndex, FALSE, c.req, out.status)
    /\ UNCHANGED <<currentStepIndex, githubRepoUrl, figmaPrompt, uploadedFile, prdText,
                   locationPrd, run>>

(* --------------------------- the fix branch ---------------------------- *)
\* ChatMessage offers "Apply Fix" on a message that carries canFix
ShowApplyFix(m) == m.canFix

IsSecurityMsg(m) == m.agentType = "security"

\* handleApplyFix(originalRepoUrl), up to its await
HandleApplyFix(originalRepoUrl) ==
    LET p == LastOf({i \in 1..Len(messages) : IsSecurityMsg(messages[i])})
        context == IF p # 0 THEN OrElse(messages[p].fileId, "") ELSE ""
        req == OrchestrateSDLC(context, "7", FALSE, originalRepoUrl, TRUE)
    IN  /\ isLoading' = TRUE
        /\ calls' = Add(calls, Call("fix", req, 0, NoClosure, run))
        /\ lastOp' = Op("applyFix", 0, TRUE, req, "")
        /\ UNCHANGED <<currentStepIndex, agentStatuses, githubRepoUrl, messages, figmaPrompt,
                       uploadedFile, prdText, locationPrd, timers, run>>

\* "Apply Fix" on message i: handleApplyFix(m.githubUrl || githubRepoUrl)
ApplyFixClick(i) ==
    /\ i \in 1..Len(messages)
    /\ ShowApplyFix(messages[i])
    /\ HandleApplyFix(OrElse(messages[i].githubUrl, githubRepoUrl))

ApplyFixReturn_MovesIndex(c, out) ==
    /\ c \in BagToSet(calls)
    /\ c.op = "fix"
    /\ calls' = Remove(calls, c)
    /\ IF out.status = "success"
       THEN /\ messages' = Append(messages,
                   Msg("assistant", "fix", "", out.github_repo, "review", "", FALSE))
            /\ agentStatuses' = [agentStatuses EXCEPT !["review"] = "success"]
            /\ currentStepIndex' = AgentsLength - 1
       ELSE UNCHANGED <<messages, agentStatuses, currentStepIndex>>
    /\ isLoading' = FALSE
    /\ lastOp' = Op("applyFixReturn", 0, FALSE, c.req, out.status)
    /\ UNCHANGED <<githubRepoUrl, figmaPrompt, uploadedFile, prdText,
                   locationPrd, timers, run>>

\* handleApplyFix as it would be if it recorded the fix result under the id it
\* looks the scan up by ('security') while marking the review stage
ApplyFixReturn_WrongAgentType(c, out) ==
    /\ c \in BagToSet(calls)
    /\ c.op = "fix"
    /\ calls' = Remove(calls, c)
    /\ IF out.status = "success"
       THEN /\ messages' = Append(messages,
                   Msg("assistant", "fix", "", out.github_repo, "security", "", FALSE))
            /\ agentStatuses' = [agentStatuses EXCEPT !["review"] = "success"]
       ELSE UNCHANGED <<messages, agentStatuses>>
    /\ isLoading' = FALSE
    /\ lastOp' = Op("applyFixReturn", 0, FALSE, c.req, out.status)
    /\ UNCHANGED <<currentStepIndex, githubRepoUrl, figmaPrompt, uploadedFile, prdText,
                   locationPrd, timers, run>>

\* the fix call returns out: the rest of handleApplyFix
ApplyFixReturn(c, out) ==
    /\ c \in BagToSet(calls)
    /\ c.op = "fix"
    /\ calls' = Remove(calls, c)
    /\ IF out.status = "success"
       THEN /\ messages' = Append(messages,
                   Msg("assistant", "fix", "", out.github_repo, "review", "", FALSE))
            /\ agentStatuses' = [agentStatuses EXCEPT !["review"] = "success"]
       ELSE UNCHANGED <<messages, agentStatuses>>
    /\ isLoading' = FALSE
    /\ lastOp' = Op("applyFixReturn", 0, FALSE, c.req, out.status)
    /\ UNCHANGED <<currentStepIndex, githubRepoUrl, figmaPrompt, uploadedFile, prdText,
                   locationPrd, timers, run>>

(* ------------- the application: routes, guards and the session --------- *)
\* user === null
NoUser == ""

\* localStorage.getItem('token') === null
NoToken == ""

\* outcomes of an AuthService request: the promise resolves or rejects
AuthOutcomes == {"ok", "rejected"}

\* the routes of App: Home, the Dashboard behind AuthGuard, Services, Login
\* and Register behind PublicGuard
Paths == {"/", "/dashboard", "/services", "/login", "/register"}

\* an AuthService request in flight; flow is the function awaiting it
\* ("check": the mount effect, "login": onSubmit of the Login page,
\* "register": onSubmit of the Register page), pc the await it stands at
\* ("timer": the setTimeout that ends the registration) and form whether
\* the form that submitted it is still on the screen
AuthCall(flow, pc, form) == [flow |-> flow, pc |-> pc, form |-> form]

\* AuthProvider after its first render and its mount effect, with the token
\* the browser holds from an earlier visit (or none)
AuthMounted(stored) ==
    /\ user = NoUser
    /\ token = stored
    /\ loading = (stored # NoToken)
    /\ authCalls = IF stored # NoToken
                   THEN SetToBag({AuthCall("check", "me", FALSE)})
                   ELSE EmptyBag

\* AuthGuard renders its children: the session check is over and a user is set
AuthGuardRenders == ~loading /\ user # NoUser

\* PublicGuard renders its children (Login, Register)
PublicPagesShown == ~loading /\ user = NoUser

\* the Dashboard component is mounted: its route is shown and the guard
\* renders it
DashboardMounted == path = "/dashboard" /\ AuthGuardRenders

\* the route shown at p for user u once the guards have rendered: AuthGuard
\* sends a visitor from /dashboard to /login, PublicGuard sends a user from
\* /login and /register to Home; while loading both show a spinner; Home and
\* Services have no guard
Guarded(p, u, l) ==
    IF l THEN p
    ELSE IF p = "/dashboard" /\ u = NoUser THEN "/login"
    ELSE IF p \in {"/login", "/register"} /\ u # NoUser THEN "/"
    ELSE p

\* the requests of a form once the form has left the screen
FormGone(c) == [c EXCEPT !.form = FALSE]

FormsGone(ac) ==
    LET S == BagToSet(ac)
        Count(e) == IF e \in S THEN ac[e] ELSE 0
    IN  [e \in {FormGone(c) : c \in S} |-> Count(e) + Count([e EXCEPT !.form = TRUE])]

\* formState.isSubmitting of the form on the screen
FormBusy == \E c \in BagToSet(authCalls) : c.form

\* an operation of the application outside the Dashboard
AppOp(name) == Op(name, 0, FALSE, NoRequest, "")

\* the variables of a Dashboard that is not mounted: those of a component
\* not yet used
Unmounted == Mounted(NullText, 0)

SetDashboard(m) ==
    /\ currentStepIndex' = m.currentStepIndex
    /\ agentStatuses' = m.agentStatuses
    /\ isLoading' = m.isLoading
    /\ githubRepoUrl' = m.githubRepoUrl
    /\ figmaPrompt' = m.figmaPrompt
    /\ uploadedFile' = m.uploadedFile
    /\ prdText' = m.prdText
    /\ messages' = m.messages

\* the rest of a step that has set the session (user', token', loading') and
\* leads to route p with location state loc and the requests ac in flight:
\* the guards redirect, a form that leaves the screen is gone, and the
\* Dashboard is mounted (first render and mount effect), stays, or is
\* unmounted.  Nothing clears the timers of an unmounted Dashboard and its
\* requests stay in flight: they run on, detached from any component.
Render(p, loc, ac, opName) ==
    /\ path' = Guarded(p, user', loading')
    /\ locationPrd' = IF path' = "/dashboard" THEN loc ELSE NullText
    /\ authCalls' = IF path' = path THEN ac ELSE FormsGone(ac)
    /\ IF DashboardMounted'
       THEN IF DashboardMounted
            THEN /\ UNCHANGED <<compVars, timers, calls, oldTimers, oldCalls>>
                 /\ lastOp' = AppOp(opName)
            ELSE /\ SetDashboard(Mounted(locationPrd', run'))
                 /\ timers' = timers (+) Mounted(locationPrd', run').timers
                 /\ UNCHANGED <<calls, oldTimers, oldCalls>>
                 /\ lastOp' = AppOp("mount")
       ELSE IF DashboardMounted
            THEN /\ SetDashboard(Unmounted)
                 /\ timers' = EmptyBag
                 /\ calls' = EmptyBag
                 /\ oldTimers' = oldTimers (+) timers
                 /\ oldCalls' = oldCalls (+) calls
                 /\ lastOp' = AppOp("unmount")
            ELSE /\ UNCHANGED <<compVars, timers, calls, oldTimers, oldCalls>>
                 /\ lastOp' = AppOp(opName)

\* the App loaded at route p, whose history entry carries loc, with the
\* stored token: every component is new
Init ==
    \E p \in Paths, loc \in LocationTexts, stored \in {NoToken, "jwt"} :
        /\ AuthMounted(stored)
        /\ path = Guarded(p, NoUser, stored # NoToken)
        /\ locationPrd = IF path = "/dashboard" THEN loc ELSE NullText
        /\ currentStepIndex = Unmounted.currentStepIndex
        /\ agentStatuses = Unmounted.agentStatuses
        /\ isLoading = Unmounted.isLoading
        /\ githubRepoUrl = Unmounted.githubRepoUrl
        /\ figmaPrompt = Unmounted.figmaPrompt
        /\ uploadedFile = Unmounted.uploadedFile
        /\ prdText = Unmounted.prdText
        /\ messages = Unmounted.messages
        /\ timers = EmptyBag
        /\ calls = EmptyBag
        /\ oldTimers = EmptyBag
        /\ oldCalls = EmptyBag
        /\ run = 1
        /\ nActs = 0
        /\ lastOp = AppOp("load")

\* a Link of the Header: Home and Services always, Dashboard while a user is
\* set, Sign In and Get Started while none is
HeaderLink(p) ==
    /\ p \in Paths
    /\ p = "/dashboard" => user # NoUser
    /\ p \in {"/login", "/register"} => user = NoUser
    /\ p # path \/ locationPrd # NullText
    /\ UNCHANGED <<user, token, loading, run>>
    /\ Render(p, NullText, authCalls, "navigate")

\* Home "Start Full SDLC": navigate(ROUTES.DASHBOARD, {state: {prdText: lastQuery}})
StartSDLCWorkflow(lastQuery) ==
    /\ path = "/"
    /\ UNCHANGED <<user, token, loading, run>>
    /\ Render("/dashboard", lastQuery, authCalls, "navigate")

\* Login page onSubmit: login(data) up to its first await
LoginSubmit ==
    /\ path = "/login" /\ PublicPagesShown
    /\ ~FormBusy
    /\ UNCHANGED <<user, token, loading, run>>
    /\ Render(path, locationPrd, Add(authCalls, AuthCall("login", "post", TRUE)), "submit")

\* Register page onSubmit: registerUser(data) up to its first await
RegisterSubmit ==
    /\ path = "/register" /\ PublicPagesShown
    /\ ~FormBusy
    /\ UNCHANGED <<user, token, loading, run>>
    /\ Render(path, locationPrd, Add(authCalls, AuthCall("register", "register", TRUE)), "submit")

\* the mount effect's getCurrentUser() settles
SessionCheckReturn(c, out) ==
    /\ c \in BagToSet(authCalls) /\ c.flow = "check"
    /\ IF out = "ok"
       THEN user' = "u" /\ UNCHANGED token
       ELSE token' = NoToken /\ UNCHANGED user
    /\ loading' = FALSE
    /\ UNCHANGED run
    /\ Render(path, locationPrd, Remove(authCalls, c), "sessionCheck")

\* the await the function goes on to when the request at pc resolves;
\* "done" when it returns.  register() runs AuthService.register and then
\* login(); the Register page then calls login() once more and sets the
\* timer of its redirect.
NextAwait(flow, pc) ==
    IF flow = "login"
    THEN IF pc = "post" THEN "me" ELSE "done"
    ELSE IF pc = "register" THEN "post1"
         ELSE IF pc = "post1" THEN "me1"
         ELSE IF pc = "me1" THEN "post2"
         ELSE IF pc = "post2" THEN "me2"
         ELSE IF pc = "me2" THEN "timer"
         ELSE "done"

\* the request is AuthService.login, whose response carries the access token
IsLoginPost(pc) == pc \in {"post", "post1", "post2"}

\* the request is the getCurrentUser() of login()
IsLoginMe(pc) == pc \in {"me", "me1", "me2"}

\* a request of a login or of a registration settles; a rejection leaves the
\* function through its throw.  The Login page goes Home once login() has
\* returned.
AuthCallReturn(c, out) ==
    /\ c \in BagToSet(authCalls) /\ c.flow \in {"login", "register"} /\ c.pc # "timer"
    /\ UNCHANGED <<loading, run>>
    /\ IF out = "ok"
       THEN LET next == NextAwait(c.flow, c.pc)
                rest == Remove(authCalls, c)
                goesHome == c.flow = "login" /\ next = "done"
            IN  /\ token' = IF IsLoginPost(c.pc) THEN "jwt" ELSE token
                /\ user' = IF IsLoginMe(c.pc) THEN "u" ELSE user
                /\ Render(IF goesHome THEN "/" ELSE path,
                          IF goesHome THEN NullText ELSE locationPrd,
                          IF next = "done" THEN rest
                          ELSE Add(rest, AuthCall(c.flow, next, c.form /\ next # "timer")),
                          "authReturn")
       ELSE /\ UNCHANGED <<user, token>>
            /\ Render(path, locationPrd, Remove(authCalls, c), "authReturn")

\* the timer of the Register page fires: navigate('/')
RegisterRedirect(c) ==
    /\ c \in BagToSet(authCalls) /\ c.pc = "timer"
    /\ UNCHANGED <<user, token, loading, run>>
    /\ Render("/", NullText, Remove(authCalls, c), "redirect")

\* Header handleLogout (the button is rendered while a user is set):
\* logout(); navigate('/login')
Logout ==
    /\ user # NoUser
    /\ token' = NoToken
    /\ user' = NoUser
    /\ UNCHANGED <<loading, run>>
    /\ Render("/login", NullText, authCalls, "logout")

(* ------------- callbacks of a Dashboard that was unmounted ------------- *)
\* a start timer of an unmounted Dashboard fires: startUIUXAgent(text), whose
\* state setters have no component left to act on
DetachedStartTimerFire(t) ==
    /\ t \in BagToSet(oldTimers)
    /\ t.kind = "start"
    /\ oldTimers' = Remove(oldTimers, t)
    /\ LET textToUse == OrElse(Trim(t.directText), Trim(t.cl.prdText))
           contentToProcess == OrElse(textToUse, DefaultContent)
           req == OrchestrateSDLC(contentToProcess, "1", t.cl.uploadedFile, "", FALSE)
       IN  oldCalls' = IF NoContent(t.directText, t.cl)
                       THEN oldCalls
                       ELSE Add(oldCalls, Call("start", req, 0, t.cl, t.run))

\* an auto-advance timer of an unmounted Dashboard fires: advanceToNextStep
DetachedAdvanceTimerFire(t) ==
    /\ t \in BagToSet(oldTimers)
    /\ t.kind = "advance"
    /\ oldTimers' = Remove(oldTimers, t)
    /\ LET nextIndex == IF t.stepIndex # Undefined THEN t.stepIndex ELSE t.cl.curIdx + 1
           req == OrchestrateSDLC(BuildQuery(t.cl.msgs, nextIndex), StepString(nextIndex + 1),
                                  FALSE, RepoToUse(t.forcedRepoUrl, t.cl), FALSE)
       IN  oldCalls' = IF NextIndexInRange(nextIndex)
                       THEN Add(oldCalls, Call("advance", req, nextIndex, t.cl, t.run))
                       ELSE oldCalls

\* a call of an unmounted Dashboard returns: the rest of its handler, of
\* which the timer of the auto-advance is all that acts
DetachedReturn(c, out) ==
    /\ c \in BagToSet(oldCalls)
    /\ oldCalls' = Remove(oldCalls, c)
    /\ oldTimers' = IF c.op = "advance" THEN oldTimers (+) AutoAdvanceTimers(c, out) ELSE oldTimers

DetachedStep ==
    /\ \/ \E t \in BagToSet(oldTimers) : DetachedStartTimerFire(t)
       \/ \E t \in BagToSet(oldTimers) : DetachedAdvanceTimerFire(t)
       \/ \E c \in BagToSet(oldCalls), out \in Outcomes : DetachedReturn(c, out)
    /\ lastOp' = AppOp("detached")
    /\ UNCHANGED <<compVars, locationPrd, timers, calls, run, user, token, loading,
                   authCalls, path>>

(* ------------------------------- reset --------------------------------- *)
SurvivesReload_Kept(bag) == bag

\* what is left of the pending callbacks and requests of a page once
\* window.location.reload() has replaced it: nothing
SurvivesReload(bag) == EmptyBag

\* "New Project" on the success banner: window.location.reload().  App is
\* loaded anew at the same history entry: AuthProvider starts over with the
\* stored token and no component of the old page is left.
NewProject ==
    /\ DashboardMounted
    /\ agentStatuses["review"] = "success"
    /\ user' = NoUser
    /\ UNCHANGED token
    /\ loading' = (token # NoToken)
    /\ authCalls' = SurvivesReload(authCalls) (+)
                        (IF token # NoToken
                         THEN SetToBag({AuthCall("check", "me", FALSE)})
                         ELSE EmptyBag)
    /\ path' = Guarded(path, NoUser, token # NoToken)
    /\ locationPrd' = IF path' = "/dashboard" THEN locationPrd ELSE NullText
    /\ SetDashboard(Unmounted)
    /\ timers' = SurvivesReload(timers)
    /\ calls' = SurvivesReload(calls)
    /\ oldTimers' = SurvivesReload(oldTimers)
    /\ oldCalls' = SurvivesReload(oldCalls)
    /\ run' = run + 1
    /\ lastOp' = [Op("reset", 0, FALSE, NoRequest, "") EXCEPT
                      !.pending = BagCardinality(timers) + BagCardinality(calls)]

(* --------------------------- specification ----------------------------- *)
UserStep ==
    \/ \E text \in UserTexts : HandleTextSubmit(text)
    \/ HandlePRDSubmit
    \/ ChangeDocument
    \/ GenerateClick
    \/ \E v \in RepoInputs : SetGithubRepoUrl(v)
    \/ JumpClick
    \/ \E index \in 0..(AgentsLength - 1) : ContinueClick(index)
    \/ \E i \in 1..Len(messages) : ApplyFixClick(i)

TimerStep ==
    \/ \E t \in BagToSet(timers) : StartTimerFire(t)
    \/ \E t \in BagToSet(timers) : AdvanceTimerFire(t)

ReturnStep(outs) ==
    \/ \E c \in BagToSet(calls), out \in outs : StartReturn(c, out)
    \/ \E c \in BagToSet(calls), out \in outs : AdvanceReturn(c, out)
    \/ \E c \in BagToSet(calls), out \in outs : ApplyFixReturn(c, out)

\* a user action, counted against the actions explored
UserAct(A) ==
    /\ nActs < MaxUserActions
    /\ nActs' = nActs + 1
    /\ A

\* a user action on the mounted Dashboard
DashboardStep == DashboardMounted /\ UserStep /\ UNCHANGED shellVars

\* a user action on the Header or on Home that changes the route
NavStep ==
    \/ \E p \in Paths : HeaderLink(p)
    \/ \E lastQuery \in LocationTexts : StartSDLCWorkflow(lastQuery)

\* a request of AuthProvider settles, or the timer of the Register page fires
AuthReturnStep ==
    \/ \E c \in BagToSet(authCalls), out \in AuthOutcomes : SessionCheckReturn(c, out)
    \/ \E c \in BagToSet(authCalls), out \in AuthOutcomes : AuthCallReturn(c, out)
    \/ \E c \in BagToSet(authCalls) : RegisterRedirect(c)

Next ==
    \/ UserAct(DashboardStep)
    \/ UserAct(NewProject)
    \/ UserAct(NavStep)
    \/ UserAct(LoginSubmit)
    \/ UserAct(RegisterSubmit)
    \/ UserAct(Logout)
    \/ TimerStep /\ UNCHANGED <<nActs, shellVars>>
    \/ ReturnStep(Outcomes) /\ UNCHANGED <<nActs, shellVars>>
    \/ AuthReturnStep /\ UNCHANGED nActs
    \/ DetachedStep /\ UNCHANGED nActs

Spec == Init /\ [][Next]_vars

\* the run in which the stored token is accepted, every agent call succeeds
\* and the user stays on the Dashboard without reloading it; a pending timer
\* fires and a call in flight returns
NextAllSucceed ==
    \/ UserAct(DashboardStep)
    \/ TimerStep /\ UNCHANGED <<nActs, shellVars>>
    \/ ReturnStep(SuccessResponses) /\ UNCHANGED <<nActs, shellVars>>
    \/ (\E c \in BagToSet(authCalls) : SessionCheckReturn(c, "ok")) /\ UNCHANGED nActs

LiveSpec ==
    /\ Init
    /\ [][NextAllSucceed]_vars
    /\ WF_vars((\E t \in BagToSet(timers) : StartTimerFire(t)) /\ UNCHANGED <<nActs, shellVars>>)
    /\ WF_vars((\E t \in BagToSet(timers) : AdvanceTimerFire(t)) /\ UNCHANGED <<nActs, shellVars>>)
    /\ WF_vars(ReturnStep(SuccessResponses) /\ UNCHANGED <<nActs, shellVars>>)

(* ------------------------------ claims --------------------------------- *)
\* the operation just executed is an advance that issued an agent call
AdvanceInvoked == lastOp.op \in {"jump", "autoAdvance", "continue"} /\ lastOp.invoked

\* the operation just executed is an advance call that returned a failure
AdvanceFailed == lastOp.op = "advanceReturn" /\ lastOp.outcome \in {"error", "thrown"}

AllSucceeded ==
    /\ \A i \in 0..(AgentsLength - 1) : agentStatuses[AgentId(i)] = "success"
    /\ currentStepIndex = AgentsLength - 1

\* C1: when advance (jump or auto-advance) invokes a stage 1..4, the text it
\* sends is the output of the most recent entry of the transcript, as it stands
\* at that moment, that has a non-empty output or an artifact reference.
C1_ForwardsLatestOutput ==
    (AdvanceInvoked /\ lastOp.nextIndex \in 1..4) =>
        LET p == LastOf({i \in 1..Len(messages) : HasOutputOrFile(messages[i])})
        IN  lastOp.req.query = IF p # 0 THEN messages[p].agentOutput ELSE ""

\* C2: when advance invokes the security scan (index 5) or the code review
\* (index 6) and the most recent transcript entry with an output or an artifact
\* reference carries an artifact reference, the text sent is that reference.
C2_ForwardsArtifactReference ==
    (AdvanceInvoked /\ lastOp.nextIndex \in {5, 6}) =>
        LET p == LastOf({i \in 1..Len(messages) : HasOutputOrFile(messages[i])})
        IN  (p # 0 /\ Truthy(messages[p].fileId)) => lastOp.req.query = messages[p].fileId

\* C3: at every moment at most one agent invocation is in flight.
C3_AtMostOneInFlight == BagCardinality(calls) <= 1

\* C4: when the call of a stage k >= 1 fails (error response or thrown error),
\* stage k is Error, currentStepIndex is k and no auto-advance is pending; and
\* stage k + 1 is invoked or scheduled only while stage k is Success, so the
\* chain never invokes the stage after a failed one.
C4_FailureHaltsChain ==
    /\ AdvanceFailed =>
          /\ agentStatuses[AgentId(lastOp.nextIndex)] = "error"
          /\ currentStepIndex = lastOp.nextIndex
          /\ \A t \in BagToSet(timers) : t.kind # "advance"
    /\ \A t \in BagToSet(timers) :
          (t.kind = "advance" /\ t.stepIndex >= 2) =>
              agentStatuses[AgentId(t.stepIndex - 1)] = "success"
    /\ \A c \in BagToSet(calls) :
          (c.op = "advance" /\ c.nextIndex >= 2) =>
              agentStatuses[AgentId(c.nextIndex - 1)] = "success"
    /\ \A k \in 1..(AgentsLength - 2) :
          agentStatuses[AgentId(k)] = "error" =>
              /\ currentStepIndex = k
              /\ \A c \in BagToSet(calls) : c.op = "advance" => c.nextIndex # k + 1

\* stage 3 was rejected: it is Error and the run stays at index 3
C4_Witness ==
    /\ AdvanceFailed /\ lastOp.outcome = "error" /\ lastOp.nextIndex = 3
    /\ agentStatuses["coding"] = "error"
    /\ agentStatuses["testing"] = "idle"

\* C5: when every call succeeds and the user has supplied the repository URL
\* and jumped to stage 1, the run eventually has all seven stages Success
\* with currentStepIndex = 6.
C5_RunCompletes == (lastOp.op = "jump" /\ lastOp.invoked /\ lastOp.req.github_url # "") ~> AllSucceeded

C5_Witness == AllSucceeded /\ lastOp.op = "advanceReturn" /\ BagCardinality(calls) = 0

\* C6: currentStepIndex stays within 0..6, and an advance whose target index
\* is not below the stage count invokes no agent and changes no state.
C6_IndexBounded ==
    /\ [](currentStepIndex \in 0..(AgentsLength - 1))
    /\ [][(lastOp'.op \in {"jump", "autoAdvance", "continue"}
             /\ ~JsLess(lastOp'.nextIndex, AgentsLength))
          => (~lastOp'.invoked /\ UNCHANGED progVars)]_vars

\* an advance with a target that is not below the stage count has run
C6_Witness ==
    /\ lastOp.op = "continue" /\ ~JsLess(lastOp.nextIndex, AgentsLength)
    /\ currentStepIndex = AgentsLength - 2

\* C7: applyFix (its start and its return, whatever the outcome) leaves
\* currentStepIndex as it found it.
C7_ApplyFixKeepsIndex ==
    [][lastOp'.op \in {"applyFix", "applyFixReturn"} => currentStepIndex' = currentStepIndex]_vars

\* a fix returned success before the chain reached the review stage
C7_Witness ==
    /\ lastOp.op = "applyFixReturn" /\ lastOp.outcome = "success"
    /\ currentStepIndex < AgentsLength - 1

\* the step tells the user of an error the one way the Dashboard has outside
\* the stage statuses: a note appended to the chat, as startUIUXAgent does
\* when it is given nothing to process
ValidationErrorShown ==
    /\ Len(messages') = Len(messages) + 1
    /\ SubSeq(messages', 1, Len(messages)) = messages
    /\ messages'[Len(messages')].role = "assistant"
    /\ messages'[Len(messages')].agentType = ""

\* C8: with the repository URL empty, a jump to stage 1 is rejected with a
\* validation error shown to the user: it invokes no agent and leaves the
\* index, the statuses and the stage results as they are, however often it
\* is repeated.
C8_JumpRejectedWithError ==
    [][(lastOp'.op \in {"jump", "jumpRejected"} /\ ~Truthy(githubRepoUrl))
          => /\ ValidationErrorShown
             /\ ~lastOp'.invoked
             /\ UNCHANGED <<currentStepIndex, agentStatuses, calls, timers>>]_vars

\* C9: every pending timer and every call in flight belongs to the current
\* run, so nothing of an abandoned run can act on the run that follows a reset.
C9_NoStaleWork ==
    /\ \A t \in BagToSet(timers) : t.run = run
    /\ \A c \in BagToSet(calls) : c.run = run

\* a reset has run while calls or timers of the old run were pending
C9_Witness == lastOp.op = "reset" /\ lastOp.pending > 0 /\ run > 1

\* C10: the fix invocation targets step 7 with the apply-fix flag, and its
\* text is the artifact reference of the most recent transcript entry recorded
\* for the security-scan stage.
C10_FixSendsScanArtifact ==
    lastOp.op = "applyFix" =>
        LET p == LastOf({i \in 1..Len(messages) : messages[i].agentType = AgentId(5)})
        IN  /\ lastOp.invoked
            /\ lastOp.req.step = "7"
            /\ lastOp.req.apply_fix
            /\ p # 0 => lastOp.req.query = messages[p].fileId

\* the most recent transcript entry of the security-scan stage offers a fix
LastScanCanFix ==
    LET p == LastOf({i \in 1..Len(messages) : messages[i].agentType = AgentId(5)})
    IN  p # 0 /\ messages[p].canFix

\* C11: an applyFix invocation is issued only while the security-scan stage is
\* Success and its most recent recorded result carries can_fix.
C11_FixOnlyAfterScan ==
    (lastOp.op = "applyFix" /\ lastOp.invoked) =>
        (agentStatuses[AgentId(5)] = "success" /\ LastScanCanFix)

\* C12: a continue event on a succeeded stage k < 6 moves currentStepIndex to
\* k + 1, marks stage k + 1 Running and invokes it.
C12_ContinueAdvances ==
    [][lastOp'.op = "continue" =>
          /\ lastOp'.invoked
          /\ lastOp'.req.step = StepString(currentStepIndex + 2)
          /\ currentStepIndex' = currentStepIndex + 1
          /\ agentStatuses'[AgentId(currentStepIndex + 1)] = "running"]_vars

\* the call c in flight is an invocation of stage k
CallOfStage(c, k) ==
    \/ c.op = "start" /\ k = 0
    \/ c.op = "advance" /\ c.nextIndex = k

\* C13: when an advance invokes stage k + 1, no call of stage k is in flight;
\* in particular stage 1 is not invoked while a stage-0 call is pending.
C13_PredecessorReturned ==
    AdvanceInvoked =>
        \A c \in BagToSet(calls) : ~CallOfStage(c, lastOp.nextIndex - 1)

\* the step stays within one run: the Dashboard is mounted before and after
\* it (a reload, a logout and a change of route end the run)
SameRun == DashboardMounted /\ DashboardMounted'

\* C14 as stated: currentStepIndex never decreases, and only the full reset
\* returns it to 0: no step other than the reset lowers the index the
\* Dashboard holds.
C14_OnlyResetReturnsToZero ==
    [][lastOp'.op # "reset" => currentStepIndex' >= currentStepIndex]_vars

\* C14: currentStepIndex never decreases while the Dashboard stays mounted;
\* it ends with the component, at the full reset and equally when a link of
\* the Header, a logout or a redirect leaves the Dashboard, and every newly
\* mounted Dashboard is at 0.
C14_IndexMonotonic ==
    [][/\ SameRun => currentStepIndex' >= currentStepIndex
       /\ currentStepIndex' < currentStepIndex =>
             (lastOp'.op \in {"reset", "unmount"} /\ ~DashboardMounted')
       /\ lastOp'.op = "mount" => (DashboardMounted' /\ currentStepIndex' = 0)]_vars

\* the Dashboard has been mounted again, without a reset, after it was left
\* while a call of stage 1 or later was in flight, and that call is still
\* pending
C14_Witness ==
    /\ lastOp.op = "mount" /\ run = 1 /\ currentStepIndex = 0
    /\ \E c \in BagToSet(oldCalls) : c.nextIndex >= 1

\* the transcript holds a result entry recorded for the stage with this id
HasResultFor(msgs, id) ==
    \E i \in 1..Len(msgs) : msgs[i].role = "assistant" /\ msgs[i].agentType = id

\* C15: a stage whose status is Success has a result entry in the transcript.
C15_SuccessHasResult ==
    \A k \in 0..(AgentsLength - 1) :
        agentStatuses[AgentId(k)] = "success" => HasResultFor(messages, AgentId(k))

\* the review stage became Success through the fix branch alone, and stage 0
\* through a start: each left its entry
C15_Witness ==
    /\ agentStatuses["review"] = "success" /\ currentStepIndex < AgentsLength - 1
    /\ agentStatuses["ui_ux"] = "success"
    /\ HasResultFor(messages, "review") /\ HasResultFor(messages, "ui_ux")

\* the status changes the stage state machine allows
AllowedStatusChanges ==
    {<<"idle", "running">>, <<"running", "success">>, <<"running", "error">>,
     <<"error", "running">>}

\* the stage whose call the operation op issued or completed
StageOfOp(op) ==
    IF op.op \in {"generate", "autoStart", "startReturn"} THEN 0 ELSE op.nextIndex

\* C16: along a run, apart from the fix branch recording the review
\* stage, a status changes only Idle -> Running, Running -> Success,
\* Running -> Error or Error -> Running; a call that returns marks its stage
\* Success or Error only if the stage was Running, and every invocation of a
\* stage leaves it marked Running.
C16_StatusTransitions ==
    [][SameRun =>
          /\ \A k \in 0..(AgentsLength - 1) :
                \/ agentStatuses'[AgentId(k)] = agentStatuses[AgentId(k)]
                \/ <<agentStatuses[AgentId(k)], agentStatuses'[AgentId(k)]>> \in AllowedStatusChanges
                \/ lastOp'.op = "applyFixReturn" /\ AgentId(k) = "review"
          /\ lastOp'.op \in {"startReturn", "advanceReturn"} =>
                agentStatuses[AgentId(StageOfOp(lastOp'))] = "running"
          /\ (lastOp'.op \in {"generate", "autoStart", "jump", "autoAdvance", "continue"}
                /\ lastOp'.invoked) =>
                agentStatuses'[AgentId(StageOfOp(lastOp'))] = "running"]_vars

\* C17: a stage after the first is invoked (by the jump, by continue or by the
\* auto-advance) only with the repository URL set: the run holds a non-empty
\* URL and the call carries a non-empty one.
C17_AdvanceHasHandle ==
    /\ AdvanceInvoked =>
          (lastOp.nextIndex > 0 /\ Truthy(githubRepoUrl) /\ Truthy(lastOp.req.github_url))
    /\ \A c \in BagToSet(calls) :
          c.op = "advance" => (Truthy(c.req.github_url) /\ Truthy(githubRepoUrl))

\* the auto-advance invoked a later stage after a response that named no
\* repository: the call carries the URL the user entered
C17_Witness ==
    /\ lastOp.op = "autoAdvance" /\ lastOp.invoked /\ lastOp.nextIndex >= 2
    /\ lastOp.req.github_url = githubRepoUrl

\* a user event that re-invokes stage k in place: the call targets step k + 1
\* outside the fix branch, stage k is marked Running and the index stays k
RetryOf(k) ==
    /\ UserStep
    /\ lastOp'.invoked /\ ~lastOp'.req.apply_fix
    /\ lastOp'.req.step = StepString(k + 1)
    /\ agentStatuses'[AgentId(k)] = "running"
    /\ currentStepIndex' = k

\* C18: whenever stage k is Error at currentStepIndex k and nothing is in
\* flight, the user has an event that retries stage k.
C18_RetryOffered ==
    \A k \in 0..(AgentsLength - 1) :
        (agentStatuses[AgentId(k)] = "error" /\ currentStepIndex = k
            /\ ~isLoading /\ calls = EmptyBag /\ timers = EmptyBag)
        => ENABLED RetryOf(k)

\* the operation just executed is a stage-0 call that returned a failure
StartFailed == lastOp.op = "startReturn" /\ lastOp.outcome \in {"error", "thrown"}

\* C19: when a stage-0 call fails, stage 0 is Error, currentStepIndex is 0 and
\* the run has stopped: no timer is left that would invoke an agent without a
\* further user event (so nothing is retried automatically).
C19_StartFailureStops ==
    StartFailed =>
        /\ agentStatuses["ui_ux"] = "error"
        /\ currentStepIndex = 0
        /\ timers = EmptyBag

\* C20: a manual continue or applyFix cancels the pending auto-advance: once
\* the user event has run, no auto-advance timer is left to fire.
C20_ManualActionCancelsTimer ==
    lastOp.op \in {"continue", "applyFix"} =>
        \A t \in BagToSet(timers) : t.kind # "advance"

\* msgs2 is msgs with entries appended at the end, nothing removed or moved
Extends(msgs, msgs2) ==
    /\ Len(msgs2) >= Len(msgs)
    /\ \A i \in 1..Len(msgs) : msgs2[i] = msgs[i]

\* C21: when a fix call returns, its outcome is recorded under the review
\* stage: on success one review entry is appended to the transcript, the
\* earlier entries stay, and review becomes Success; on an error response or
\* a thrown error review becomes Error.
C21_FixOutcomeRecorded ==
    [][lastOp'.op = "applyFixReturn" =>
          IF lastOp'.outcome = "success"
          THEN /\ Extends(messages, messages')
               /\ Len(messages') = Len(messages) + 1
               /\ messages'[Len(messages')].agentType = "review"
               /\ agentStatuses'["review"] = "success"
          ELSE agentStatuses'["review"] = "error"]_vars

\* the operation just executed is a start that issued a stage-0 call
StartInvoked == lastOp.op \in {"generate", "autoStart"} /\ lastOp.invoked

\* C22: a start issues a stage-0 call only from a state with
\* currentStepIndex = 0 and stage 0 Idle.
C22_StartOnlyFromIdle ==
    [][StartInvoked' => (currentStepIndex = 0 /\ agentStatuses["ui_ux"] = "idle")]_vars

\* the transcript holds no stage result (notes and the user's own messages
\* are not stage results)
NoStageResults(msgs) == \A i \in 1..Len(msgs) : msgs[i].agentType = ""

\* C23: right after the Dashboard is mounted, on the first page load and on
\* the one that follows a reset, the run is at index 0 with every stage Idle,
\* no stage result in the transcript and no repository URL.
C23_InitialStateIdle ==
    lastOp.op = "mount" =>
        /\ currentStepIndex = 0
        /\ \A k \in 0..(AgentsLength - 1) : agentStatuses[AgentId(k)] = "idle"
        /\ NoStageResults(messages)
        /\ githubRepoUrl = ""

\* the entry is a result recorded by the main sequence (startUIUXAgent or
\* advanceToNextStep), not by the fix branch
IsMainResult(m) == m.agentType # "" /\ m.content = "ok"

\* position in AGENTS of the stage with this id
IndexOfAgent(id) == CHOOSE k \in 0..(AgentsLength - 1) : AgentId(k) = id

\* the main-sequence results of msgs stand in stage order
InStageOrder(msgs) ==
    \A i, j \in 1..Len(msgs) :
        (i < j /\ IsMainResult(msgs[i]) /\ IsMainResult(msgs[j])) =>
            IndexOfAgent(msgs[i].agentType) <= IndexOfAgent(msgs[j].agentType)

\* C24: the results of the main sequence stand in the transcript in stage
\* order, and along a run the transcript only grows at its end.
C24_ResultsInStageOrder ==
    [][/\ InStageOrder(messages')
       /\ SameRun => Extends(messages, messages')]_vars

\* the 'all 7 agents completed' banner is rendered
SuccessBannerShown == agentStatuses["review"] = "success"

\* C25: whenever the completion banner is shown, all seven stages are Success
\* and currentStepIndex is 6.
C25_BannerMeansAllDone == SuccessBannerShown => AllSucceeded

\* C26: while an agent call of start, advance or applyFix is in flight,
\* isLoading is true.
C26_InFlightMeansLoading == calls # EmptyBag => isLoading

\* C27: along a run every change of currentStepIndex is a step to the
\* next index, and the target the jump or an auto-advance passes is
\* currentStepIndex + 1 when that advance executes.
C27_IndexStepsByOne ==
    [][SameRun =>
          /\ currentStepIndex' # currentStepIndex => currentStepIndex' = currentStepIndex + 1
          /\ lastOp'.op \in {"jump", "autoAdvance"} =>
                /\ lastOp'.nextIndex = currentStepIndex + 1
                /\ lastOp'.invoked /\ currentStepIndex' = lastOp'.nextIndex]_vars

\* an auto-advance has just moved the run from stage 3 to stage 4
C27_Witness ==
    /\ lastOp.op = "autoAdvance" /\ lastOp.invoked /\ lastOp.nextIndex = 4
    /\ currentStepIndex = 4 /\ agentStatuses["coding"] = "success"

\* the user types a repository URL
ProvideHandle == \E v \in RepoInputs : Truthy(v) /\ SetGithubRepoUrl(v)

\* a user event that invokes stage 1
InvokeStage1 ==
    /\ UserStep
    /\ lastOp'.invoked /\ ~lastOp'.req.apply_fix
    /\ lastOp'.req.step = StepString(2)

\* C28: whenever stage 0 is Success at index 0 and nothing is in flight, the
\* user can go on to stage 1: enter the repository URL if there is none yet,
\* and with a URL entered invoke stage 1 by the jump or by continue.
C28_CanProceedAfterStart ==
    (agentStatuses["ui_ux"] = "success" /\ currentStepIndex = 0
        /\ ~isLoading /\ calls = EmptyBag /\ timers = EmptyBag)
    => IF Truthy(githubRepoUrl) THEN ENABLED InvokeStage1 ELSE ENABLED ProvideHandle

\* the start is given no file and only blank text, as argument and as prdText
NothingToProcess(directText, cl) ==
    ~cl.uploadedFile /\ Trim(directText) = "" /\ Trim(cl.prdText) = ""

\* C29: a start that has neither an uploaded file nor a non-blank text (the
\* Generate click on the current state, or a start timer on the text and the
\* closure it carries) issues no call; it appends one warning and leaves
\* currentStepIndex, every status, isLoading and the calls in flight alone.
C29_EmptyStartOnlyWarns ==
    [][/\ (lastOp'.op = "generate" /\ NothingToProcess(NullText, CurrentClosure)) =>
             ~lastOp'.invoked
       /\ \A t \in BagToSet(timers) :
             (lastOp'.op = "autoStart" /\ timers' = Remove(timers, t) /\ t.kind = "start"
                 /\ NothingToProcess(t.directText, t.cl)) => ~lastOp'.invoked
       /\ (lastOp'.op \in {"generate", "autoStart"} /\ ~lastOp'.invoked) =>
             /\ messages' = Append(messages, NoteMsg("warning"))
             /\ UNCHANGED <<currentStepIndex, agentStatuses, isLoading, calls>>]_vars

\* the start timer of a blank text brought from Home fired while a Generate
\* call was in flight: a warning and nothing else
C29_Witness ==
    /\ lastOp.op = "autoStart" /\ ~lastOp.invoked
    /\ Len(messages) > 0 /\ messages[Len(messages)] = NoteMsg("warning")
    /\ BagCardinality(calls) = 1 /\ isLoading

\* C30: after any interleaving of the session check, logins, registrations
\* and logouts, a user that is set has a token in localStorage.
C30_UserImpliesToken == user # NoUser => token # NoToken

====
